---- MODULE Spec2Model ----
(***************************************************************************)
(* A model of server.py: the per-device conversation memory (app.memory),  *)
(* its durable JSON snapshot (MEMORY_FILE), the single memory_lock, and    *)
(* the request handlers api() and history_page() run by a pool of threads. *)
(*                                                                         *)
(* A text is a sequence of atomic tokens (words and whitespace), so that   *)
(* strip and join are computed.  A JSON document on disk is a sequence of  *)
(* tokens, one per key and a closing one, so that a partially written      *)
(* document is a proper prefix of a complete one and json.load fails on    *)
(* it.  Keys are dumped in a fixed order: json.load builds a dict, whose   *)
(* equality ignores the order.                                             *)
(***************************************************************************)
EXTENDS Integers, Sequences, FiniteSets, TLC

VARIABLES
  mem,      \* app.memory: device id -> list of turns (a dict: keys may be absent)
  file,     \* MEMORY_FILE on disk: [exists, data]
  tmp,      \* per thread: the NamedTemporaryFile being written, [exists, data]
  lock,     \* memory_lock: Free or the thread holding it
  wlog,     \* outcome logged by the latest _write_memory_file: none / saved / error
  apiKey,   \* whether API_KEY is configured (fixed at process start)
  pc,       \* per thread: position in the handler
  sect,     \* per thread: which critical section the handler is in / heading to
  req,      \* per thread: the request being served
  reply,    \* per thread: the local variable reply of api()
  rdata,    \* per thread: data = resp.json() of line 211, JNull before that
  sent,     \* per thread: the payloads this request has posted to the provider
  resp,     \* per thread: the response returned, [status, body]
  nreq      \* number of requests accepted so far

vars == <<mem, file, tmp, lock, wlog, apiKey, pc, sect, req, reply, rdata, sent, resp, nreq>>

-----------------------------------------------------------------------------
(* Bounds and program constants *)

MaxReq == 2

Cap == 200

Threads == {"t1", "t2"}

ThreadOrder == [t \in Threads |-> IF t = "t1" THEN 1 ELSE 2]

Devices == {"d1", "d2"}

DeviceOrder == <<"d1", "d2">>

Free == "free"

-----------------------------------------------------------------------------
(* Turns and histories *)

Turn(s, t) == [sender |-> s, text |-> t]

\* a one-word text
W(w) == <<w>>

\* n turns alternating You / AI, the first one marked so that eviction shows
LongHistory(n) ==
  [i \in 1..n |-> IF i = 1 THEN Turn("You", W("first"))
                  ELSE IF i % 2 = 1 THEN Turn("You", W("hi")) ELSE Turn("AI", W("ok"))]

ShortHistory == <<Turn("You", W("a")), Turn("AI", W("b"))>>

\* a list whose elements are dicts that are not Turn-shaped
BadHistory == <<[sender |-> "You"], [text |-> W("x")]>>

Whitespace == {" ", "\n"}

RECURSIVE LStrip(_)
LStrip(s) == IF s # <<>> /\ Head(s) \in Whitespace THEN LStrip(Tail(s)) ELSE s

RECURSIVE RStrip(_)
RStrip(s) ==
  IF s # <<>> /\ s[Len(s)] \in Whitespace THEN RStrip(SubSeq(s, 1, Len(s) - 1)) ELSE s

\* str.strip()
Strip(s) == RStrip(LStrip(s))

\* the last n elements of s: s[-n:]
LastN(s, n) == IF Len(s) <= n THEN s ELSE SubSeq(s, Len(s) - n + 1, Len(s))

\* app.memory.get(device_id, [])
Get(m, d) == IF d \in DOMAIN m THEN m[d] ELSE <<>>

\* app.memory[device_id] = h
Put(m, d, h) == [x \in (DOMAIN m) \cup {d} |-> IF x = d THEN h ELSE m[x]]

EmptyMem == [x \in {} |-> <<>>]

-----------------------------------------------------------------------------
(* The JSON document *)

NoFile == [exists |-> FALSE, data |-> <<>>]

Keys(m) == SelectSeq(DeviceOrder, LAMBDA d : d \in DOMAIN m)

\* json.dump(data, tf): the token sequence of the whole document
Dump(m) ==
  [i \in 1..Len(Keys(m)) |-> [tok |-> "entry", key |-> Keys(m)[i], val |-> m[Keys(m)[i]]]]
  \o <<[tok |-> "close"]>>

\* whether json.load accepts the token sequence
Parses(data) ==
  /\ Len(data) >= 1
  /\ data[Len(data)].tok = "close"
  /\ \A i \in 1..(Len(data) - 1) : data[i].tok = "entry"

\* the dict json.load builds from a complete document
Parse(data) ==
  LET ks == {data[i].key : i \in 1..(Len(data) - 1)}
  IN  [d \in ks |-> data[CHOOSE i \in 1..(Len(data) - 1) : data[i].key = d].val]

\* load_memory() applied to the file f: a missing or unparseable file gives {}
load_memory(f) ==
  IF ~f.exists THEN EmptyMem
  ELSE IF Parses(f.data) THEN Parse(f.data)
  ELSE EmptyMem

-----------------------------------------------------------------------------
(* Requests *)

NoMemory == [present |-> FALSE, isList |-> FALSE, val |-> <<>>]

ListMemory(h) == [present |-> TRUE, isList |-> TRUE, val |-> h]

\* a "memory" field that is not a list
OtherMemory == [present |-> TRUE, isList |-> FALSE, val |-> <<>>]

Request(route, method, d, clear, view, memory, input) ==
  [route |-> route, method |-> method, device |-> d, clear |-> clear,
   view |-> view, memory |-> memory, input |-> input]

NoRequest == Request("none", "GET", "d1", FALSE, "none", NoMemory, <<>>)

Hi == W("hi")

Blank == W(" ")

PaddedYo == <<" ", "yo", " ">>

\* the requests clients send: two prompts for d1 (one padded, by POST), a
\* whitespace prompt, clear, view, an import longer than the cap, an import
\* whose elements are not turns, a "memory" that is no list, the history page
Requests ==
  {Request("api", "GET", "d1", FALSE, "none", NoMemory, Hi),
   Request("api", "POST", "d1", FALSE, "none", NoMemory, PaddedYo),
   Request("api", "GET", "d1", FALSE, "none", NoMemory, Blank),
   Request("api", "GET", "d1", TRUE, "none", NoMemory, <<>>),
   Request("api", "GET", "d1", FALSE, "history", NoMemory, <<>>),
   Request("api", "POST", "d1", FALSE, "none", ListMemory(LongHistory(Cap + 1)), <<>>),
   Request("api", "POST", "d2", FALSE, "none", ListMemory(BadHistory), <<>>),
   Request("api", "POST", "d1", FALSE, "none", OtherMemory, <<>>),
   Request("history", "GET", "d1", FALSE, "none", NoMemory, <<>>)}

\* user_input as api() reads it (lines 140, 142)
UserInput(r) == Strip(r.input)

\* faulty variant: the check of line 156 is missing
BranchWithoutInputCheck(r) ==
  IF r.route = "history" THEN "page"
  ELSE IF r.method = "POST" /\ r.memory.present /\ r.memory.isList THEN "import"
  ELSE IF r.clear THEN "clear"
  ELSE IF r.view = "history" THEN "view"
  ELSE "converse"

\* the branch of the handler a request runs
Branch(r) ==
  IF r.route = "history" THEN "page"
  ELSE IF r.method = "POST" /\ r.memory.present /\ r.memory.isList THEN "import"
  ELSE IF r.clear THEN "clear"
  ELSE IF r.view = "history" THEN "view"
  ELSE IF UserInput(r) = <<>> THEN "noinput"
  ELSE "converse"

\* a response: the status, what kind of body it carries, and the body
\* (a text, a history for view=history, the rendered documents for /history)
Response(status, kind, body) == [status |-> status, kind |-> kind, body |-> body]

NoResponse == Response(0, "none", <<>>)

-----------------------------------------------------------------------------
(* The provider's response document and _extract_text_from_gemini_response *)

JNull == [t |-> "null"]

JStr(s) == [t |-> "str", s |-> s]

JList(l) == [t |-> "list", l |-> l]

JDict(d) == [t |-> "dict", d |-> d]

EmptyDict == JDict(EmptyMem)

\* Python truthiness of a JSON value
Truthy(v) ==
  CASE v.t = "null" -> FALSE
    [] v.t = "str"  -> v.s # <<>>
    [] v.t = "list" -> v.l # <<>>
    [] v.t = "dict" -> DOMAIN v.d # {}

\* v.get(k, dflt) on a dict v
DictGet(v, k, dflt) == IF k \in DOMAIN v.d THEN v.d[k] ELSE dflt

\* sep.join(texts)
RECURSIVE Join(_, _)
Join(sep, texts) ==
  IF texts = <<>> THEN <<>>
  ELSE IF Len(texts) = 1 THEN texts[1]
  ELSE texts[1] \o sep \o Join(sep, Tail(texts))

\* p.get("text", "") of each element; raises when an element is no dict or a text no str
TextsRaise(l) ==
  \E i \in 1..Len(l) : l[i].t # "dict" \/ DictGet(l[i], "text", JStr(<<>>)).t # "str"

Texts(l) == [i \in 1..Len(l) |-> DictGet(l[i], "text", JStr(<<>>)).s]

\* x.get("content", {}).get("text", "") or x.get("text", "") or "", for a dict x;
\* the documents modelled keep a str under every "text" key
ContentTextRaises(x) == DictGet(x, "content", EmptyDict).t # "dict"

ContentText(x) ==
  LET a == DictGet(DictGet(x, "content", EmptyDict), "text", JStr(<<>>))
      b == DictGet(x, "text", JStr(<<>>))
  IN  IF Truthy(a) THEN a.s ELSE IF Truthy(b) THEN b.s ELSE <<>>

\* lines 94-97: [raised, text]
CandidatesRule(candidates) ==
  LET c0      == candidates.l[1]
      content == DictGet(c0, "content", EmptyDict)
      parts   == DictGet(content, "parts", JList(<<>>))
  IN  IF c0.t # "dict" \/ content.t # "dict" THEN [raised |-> TRUE, text |-> <<>>]
      ELSE IF parts.t # "list"
        THEN [raised |-> Truthy(parts) \/ parts.t = "null", text |-> <<>>]
      ELSE IF TextsRaise(parts.l) THEN [raised |-> TRUE, text |-> <<>>]
      ELSE [raised |-> FALSE, text |-> Strip(Join(<<>>, Texts(parts.l)))]

\* lines 102-108
OutputListRule(output) ==
  LET items == SelectSeq(output.l, LAMBDA x : x.t = "dict")
      texts == [i \in 1..Len(items) |-> ContentText(items[i])]
  IN  IF \E i \in 1..Len(items) : ContentTextRaises(items[i])
        THEN [raised |-> TRUE, text |-> <<>>]
        ELSE [raised |-> FALSE,
              text |-> Strip(Join(<<"\n">>, SelectSeq(texts, LAMBDA t : t # <<>>)))]

\* lines 109-110
OutputDictRule(output) ==
  IF ContentTextRaises(output) THEN [raised |-> TRUE, text |-> <<>>]
  ELSE [raised |-> FALSE, text |-> ContentText(output)]

\* lines 113-114
ResponsesRule(responses) ==
  IF TextsRaise(responses.l) THEN [raised |-> TRUE, text |-> <<>>]
  ELSE [raised |-> FALSE, text |-> Strip(Join(<<" ">>, Texts(responses.l)))]

\* _extract_text_from_gemini_response(data): any exception gives ""
ExtractText(data) ==
  IF data.t # "dict" THEN <<>>
  ELSE
    LET candidates == DictGet(data, "candidates", JNull)
        output     == DictGet(data, "output", JNull)
        responses  == DictGet(data, "responses", JNull)
        r == IF Truthy(candidates) /\ candidates.t = "list" THEN CandidatesRule(candidates)
             ELSE IF Truthy(output) /\ output.t = "list" THEN OutputListRule(output)
             ELSE IF Truthy(output) /\ output.t = "dict" THEN OutputDictRule(output)
             ELSE IF responses.t = "list" THEN ResponsesRule(responses)
             ELSE [raised |-> FALSE, text |-> <<>>]
    IN  IF r.raised THEN <<>> ELSE r.text

NoReply == W("No reply")

\* lines 217-225: the reply for a parsed response body
ReplyFor(data) ==
  LET extracted == ExtractText(data)
      text      == DictGet(data, "text", JNull)
      message   == DictGet(data, "message", JNull)
  IN  IF extracted # <<>> THEN extracted
      ELSE IF data.t # "dict" THEN NoReply
      ELSE IF Truthy(text) THEN text.s
      ELSE IF Truthy(message) THEN message.s
      ELSE NoReply

\* response bodies the provider returns with a success status
HelloDoc ==
  JDict([k \in {"candidates"} |->
    JList(<<JDict([c \in {"content"} |->
      JDict([q \in {"parts"} |-> JList(<<JDict([x \in {"text"} |-> JStr(W("hello"))])>>)])])>>)])

ProviderDocs == {HelloDoc}

MissingKeyReply == W("Error: Missing Gemini API key.")

\* what requests.post and the checks of lines 193-229 can come to
Outcomes ==
  {[kind |-> "transport", data |-> JNull], [kind |-> "status", data |-> JNull],
   [kind |-> "badjson", data |-> JNull]}
  \cup {[kind |-> "ok", data |-> d] : d \in ProviderDocs}

\* the reply api() derives from an outcome of the call
ReplyOf(o) ==
  CASE o.kind = "transport" -> W("Error contacting Gemini: timeout")
    [] o.kind = "status"    -> W("Error contacting Gemini: status 500")
    [] o.kind = "badjson"   -> W("Error parsing Gemini response")
    [] o.kind = "ok"        -> ReplyFor(o.data)

\* faulty variant: the prompt is sent under the responder's role
PayloadAsResponder(user_input) == <<[role |-> "model", text |-> user_input]>>

\* the payload's contents (lines 173-181)
Payload(user_input) == <<[role |-> "user", text |-> user_input]>>

-----------------------------------------------------------------------------
(* Initial state: app.memory = load_memory() at startup, nothing in flight *)

SeedMem == [d \in {"d2"} |-> ShortHistory]

\* the deployments considered: a first start with a credential and no file yet,
\* and a restart over an existing file without a credential
Deployments ==
  {[file |-> NoFile, key |-> TRUE],
   [file |-> [exists |-> TRUE, data |-> Dump(SeedMem)], key |-> FALSE]}

Init ==
  /\ \E c \in Deployments : file = c.file /\ apiKey = c.key
  /\ mem = load_memory(file)
  /\ tmp = [t \in Threads |-> NoFile]
  /\ lock = Free
  /\ wlog = "none"
  /\ pc = [t \in Threads |-> "idle"]
  /\ sect = [t \in Threads |-> "none"]
  /\ req = [t \in Threads |-> NoRequest]
  /\ reply = [t \in Threads |-> NoReply]
  /\ rdata = [t \in Threads |-> JNull]
  /\ sent = [t \in Threads |-> <<>>]
  /\ resp = [t \in Threads |-> NoResponse]
  /\ nreq = 0

-----------------------------------------------------------------------------
(* The handlers, one action per step a thread takes *)

FirstSect(b) ==
  CASE b = "import"   -> "import"
    [] b = "clear"    -> "clear"
    [] b = "converse" -> "user"

\* a thread of the pool takes request r (the first thread that is not busy):
\* what every branch does first
Accept(t, r) ==
  /\ pc[t] \in {"idle", "done"}
  /\ \A u \in Threads : ThreadOrder[u] < ThreadOrder[t] => pc[u] \notin {"idle", "done"}
  /\ nreq < MaxReq
  /\ nreq' = nreq + 1
  /\ req' = [req EXCEPT ![t] = r]
  /\ reply' = [reply EXCEPT ![t] = NoReply]
  /\ rdata' = [rdata EXCEPT ![t] = JNull]
  /\ sent' = [sent EXCEPT ![t] = <<>>]

\* api() for a request that mutates the store: dispatch (lines 122-157) up to
\* the with memory_lock: of its branch
Start(t, r) ==
  /\ Branch(r) \in {"import", "clear", "converse"}
  /\ Accept(t, r)
  /\ pc' = [pc EXCEPT ![t] = "lock"]
  /\ sect' = [sect EXCEPT ![t] = FirstSect(Branch(r))]
  /\ resp' = [resp EXCEPT ![t] = NoResponse]
  /\ UNCHANGED <<mem, file, tmp, lock, wlog, apiKey>>

\* faulty variant: the view reads with setdefault, which adds the key
ViewWithSetDefault(t, r) ==
  /\ Branch(r) = "view"
  /\ Accept(t, r)
  /\ resp' = [resp EXCEPT ![t] = Response(200, "json", Get(mem, r.device))]
  /\ mem' = Put(mem, r.device, Get(mem, r.device))
  /\ pc' = [pc EXCEPT ![t] = "done"]
  /\ sect' = [sect EXCEPT ![t] = "none"]
  /\ UNCHANGED <<file, tmp, lock, wlog, apiKey>>

\* api() for view=history: return jsonify(app.memory.get(device_id, [])) (line 153)
View(t, r) ==
  /\ Branch(r) = "view"
  /\ Accept(t, r)
  /\ resp' = [resp EXCEPT ![t] = Response(200, "json", Get(mem, r.device))]
  /\ pc' = [pc EXCEPT ![t] = "done"]
  /\ sect' = [sect EXCEPT ![t] = "none"]
  /\ UNCHANGED <<mem, file, tmp, lock, wlog, apiKey>>

\* api() without input: return "No input", 400 (line 157)
NoInput(t, r) ==
  /\ Branch(r) = "noinput"
  /\ Accept(t, r)
  /\ resp' = [resp EXCEPT ![t] = Response(400, "text", W("No input"))]
  /\ pc' = [pc EXCEPT ![t] = "done"]
  /\ sect' = [sect EXCEPT ![t] = "none"]
  /\ UNCHANGED <<mem, file, tmp, lock, wlog, apiKey>>

\* history_page(): opens MEMORY_FILE without the lock and json.loads it
HistoryPage(t, r) ==
  /\ Branch(r) = "page"
  /\ Accept(t, r)
  /\ resp' = [resp EXCEPT ![t] =
       IF ~file.exists THEN Response(200, "nofile", <<>>)
       ELSE IF Parses(file.data) THEN Response(200, "html", Parse(file.data))
       ELSE Response(200, "error", <<>>)]
  /\ pc' = [pc EXCEPT ![t] = "done"]
  /\ sect' = [sect EXCEPT ![t] = "none"]
  /\ UNCHANGED <<mem, file, tmp, lock, wlog, apiKey>>

\* faulty variant: the handler enters its section without waiting for the lock
AcquireWithoutWaiting(t) ==
  /\ pc[t] = "lock"
  /\ lock' = t
  /\ pc' = [pc EXCEPT ![t] = "mutate"]
  /\ UNCHANGED <<mem, file, tmp, wlog, apiKey, sect, req, reply, rdata, sent, resp, nreq>>

\* with memory_lock: (lines 134, 146, 160, 232)
Acquire(t) ==
  /\ pc[t] = "lock"
  /\ lock = Free
  /\ lock' = t
  /\ pc' = [pc EXCEPT ![t] = "mutate"]
  /\ UNCHANGED <<mem, file, tmp, wlog, apiKey, sect, req, reply, rdata, sent, resp, nreq>>

\* app.memory.setdefault(d, []).append(turn), then the cap of lines 163-164
AppendUserTurn(m, d, turn) ==
  LET h == Append(Get(m, d), turn)
  IN  Put(m, d, IF Len(h) > Cap THEN LastN(h, Cap) ELSE h)

\* the replies that report a failed or skipped call (lines 171, 198, 214, 229)
ErrorReplies ==
  {MissingKeyReply} \cup {ReplyOf(o) : o \in {x \in Outcomes : x.kind # "ok"}}

\* faulty variant: a reply that reports an error is not stored
AppendReplySkippingErrors(m, d, turn) ==
  IF turn.text \in ErrorReplies THEN m ELSE Put(m, d, Append(Get(m, d), turn))

\* app.memory.setdefault(d, []).append(turn) (line 233)
AppendReplyTurn(m, d, turn) == Put(m, d, Append(Get(m, d), turn))

\* faulty variant: an import is cut to the cap like an append
MutatedWithImportCapped(t) ==
  LET d == req[t].device
  IN  CASE sect[t] = "import" -> Put(mem, d, LastN(req[t].memory.val, Cap))
        [] sect[t] = "clear"  -> Put(mem, d, <<>>)
        [] sect[t] = "user"   -> AppendUserTurn(mem, d, Turn("You", UserInput(req[t])))
        [] sect[t] = "ai"     -> AppendReplyTurn(mem, d, Turn("AI", reply[t]))

\* the in-memory mutation of each critical section
Mutated(t) ==
  LET d == req[t].device
  IN  CASE sect[t] = "import" -> Put(mem, d, req[t].memory.val)
        [] sect[t] = "clear"  -> Put(mem, d, <<>>)
        [] sect[t] = "user"   -> AppendUserTurn(mem, d, Turn("You", UserInput(req[t])))
        [] sect[t] = "ai"     -> AppendReplyTurn(mem, d, Turn("AI", reply[t]))

Mutate(t) ==
  /\ pc[t] = "mutate"
  /\ mem' = Mutated(t)
  /\ pc' = [pc EXCEPT ![t] = "w_open"]
  /\ UNCHANGED <<file, tmp, lock, wlog, apiKey, sect, req, reply, rdata, sent, resp, nreq>>

\* faulty variant: the document is written in place, open(MEMORY_FILE, "w")
WriteOpenInPlace(t) ==
  /\ pc[t] = "w_open"
  /\ file' = [exists |-> TRUE, data |-> <<>>]
  /\ tmp' = [tmp EXCEPT ![t] = [exists |-> TRUE, data |-> <<>>]]
  /\ pc' = [pc EXCEPT ![t] = "w_dump"]
  /\ UNCHANGED <<mem, lock, wlog, apiKey, sect, req, reply, rdata, sent, resp, nreq>>

\* _write_memory_file: tempfile.NamedTemporaryFile("w", dir=dirpath, delete=False)
WriteOpen(t) ==
  /\ pc[t] = "w_open"
  /\ tmp' = [tmp EXCEPT ![t] = [exists |-> TRUE, data |-> <<>>]]
  /\ pc' = [pc EXCEPT ![t] = "w_dump"]
  /\ UNCHANGED <<mem, file, lock, wlog, apiKey, sect, req, reply, rdata, sent, resp, nreq>>

\* _write_memory_file: json.dump(data, tf) writes the document piece by piece
WriteDump(t) ==
  /\ pc[t] = "w_dump"
  /\ LET doc == Dump(mem)
         n   == Len(tmp[t].data) + 1
     IN  /\ tmp' = [tmp EXCEPT ![t].data = Append(@, doc[n])]
         /\ pc' = [pc EXCEPT ![t] = IF n = Len(doc) THEN "w_replace" ELSE "w_dump"]
  /\ UNCHANGED <<mem, file, lock, wlog, apiKey, sect, req, reply, rdata, sent, resp, nreq>>

\* faulty variant: the write reports success without replacing the file
WriteReplaceSkipped(t) ==
  /\ pc[t] = "w_replace"
  /\ tmp' = [tmp EXCEPT ![t] = NoFile]
  /\ wlog' = "saved"
  /\ pc' = [pc EXCEPT ![t] = "unlock"]
  /\ UNCHANGED <<mem, file, lock, apiKey, sect, req, reply, rdata, sent, resp, nreq>>

\* _write_memory_file: os.replace(tempname, MEMORY_FILE); return True
WriteReplace(t) ==
  /\ pc[t] = "w_replace"
  /\ file' = tmp[t]
  /\ tmp' = [tmp EXCEPT ![t] = NoFile]
  /\ wlog' = "saved"
  /\ pc' = [pc EXCEPT ![t] = "unlock"]
  /\ UNCHANGED <<mem, lock, apiKey, sect, req, reply, rdata, sent, resp, nreq>>

\* faulty variant: a failed write undoes the append that preceded it
WriteFailRollsBack(t) ==
  /\ pc[t] \in {"w_open", "w_dump", "w_replace"}
  /\ mem' = IF sect[t] \in {"user", "ai"}
              THEN Put(mem, req[t].device,
                       SubSeq(mem[req[t].device], 1, Len(mem[req[t].device]) - 1))
              ELSE mem
  /\ tmp' = [tmp EXCEPT ![t] = NoFile]
  /\ wlog' = "error"
  /\ pc' = [pc EXCEPT ![t] = "unlock"]
  /\ UNCHANGED <<file, lock, apiKey, sect, req, reply, rdata, sent, resp, nreq>>

\* _write_memory_file: an exception at any point of the write (a directory that
\* _ensure_memory_dir could not create, a full disk, a refused rename); the temp file is
\* abandoned under its own name, the error is logged, False is returned
WriteFail(t) ==
  /\ pc[t] \in {"w_open", "w_dump", "w_replace"}
  /\ tmp' = [tmp EXCEPT ![t] = NoFile]
  /\ wlog' = "error"
  /\ pc' = [pc EXCEPT ![t] = "unlock"]
  /\ UNCHANGED <<mem, file, lock, apiKey, sect, req, reply, rdata, sent, resp, nreq>>

\* faulty variant: the lock of the first block is kept over the call to the provider
ReleaseAfterGenerate(t) ==
  /\ pc[t] = "unlock"
  /\ lock' = IF sect[t] = "user" THEN lock ELSE Free
  /\ CASE sect[t] = "import" ->
            /\ resp' = [resp EXCEPT ![t] = Response(200, "text", W("Memory imported successfully!"))]
            /\ pc' = [pc EXCEPT ![t] = "done"]
       [] sect[t] = "clear" ->
            /\ resp' = [resp EXCEPT ![t] = Response(200, "text", W("Memory cleared!"))]
            /\ pc' = [pc EXCEPT ![t] = "done"]
       [] sect[t] = "user" ->
            /\ resp' = resp
            /\ pc' = [pc EXCEPT ![t] = "generate"]
       [] sect[t] = "ai" ->
            /\ resp' = [resp EXCEPT ![t] = Response(200, "text", reply[t])]
            /\ pc' = [pc EXCEPT ![t] = "done"]
  /\ UNCHANGED <<mem, file, tmp, wlog, apiKey, sect, req, reply, rdata, sent, nreq>>

\* faulty variant: the clear branch returns without releasing the lock
ReleaseExceptAfterClear(t) ==
  /\ pc[t] = "unlock"
  /\ lock' = IF sect[t] = "clear" THEN lock ELSE Free
  /\ CASE sect[t] = "import" ->
            /\ resp' = [resp EXCEPT ![t] = Response(200, "text", W("Memory imported successfully!"))]
            /\ pc' = [pc EXCEPT ![t] = "done"]
       [] sect[t] = "clear" ->
            /\ resp' = [resp EXCEPT ![t] = Response(200, "text", W("Memory cleared!"))]
            /\ pc' = [pc EXCEPT ![t] = "done"]
       [] sect[t] = "user" ->
            /\ resp' = resp
            /\ pc' = [pc EXCEPT ![t] = "generate"]
       [] sect[t] = "ai" ->
            /\ resp' = [resp EXCEPT ![t] = Response(200, "text", reply[t])]
            /\ pc' = [pc EXCEPT ![t] = "done"]
  /\ UNCHANGED <<mem, file, tmp, wlog, apiKey, sect, req, reply, rdata, sent, nreq>>

\* the end of the with block, and what follows it in each branch
Release(t) ==
  /\ pc[t] = "unlock"
  /\ lock' = Free
  /\ CASE sect[t] = "import" ->
            /\ resp' = [resp EXCEPT ![t] = Response(200, "text", W("Memory imported successfully!"))]
            /\ pc' = [pc EXCEPT ![t] = "done"]
       [] sect[t] = "clear" ->
            /\ resp' = [resp EXCEPT ![t] = Response(200, "text", W("Memory cleared!"))]
            /\ pc' = [pc EXCEPT ![t] = "done"]
       [] sect[t] = "user" ->
            /\ resp' = resp
            /\ pc' = [pc EXCEPT ![t] = "generate"]
       [] sect[t] = "ai" ->
            /\ resp' = [resp EXCEPT ![t] = Response(200, "text", reply[t])]
            /\ pc' = [pc EXCEPT ![t] = "done"]
  /\ UNCHANGED <<mem, file, tmp, wlog, apiKey, sect, req, reply, rdata, sent, nreq>>

\* faulty variant: a call that failed is posted a second time
GenerateWithRetry(t) ==
  /\ pc[t] = "generate"
  /\ IF ~apiKey
       THEN /\ reply' = [reply EXCEPT ![t] = MissingKeyReply]
            /\ UNCHANGED <<sent, rdata>>
       ELSE \E o \in Outcomes :
              IF o.kind = "ok"
                THEN /\ sent' = [sent EXCEPT ![t] = Append(@, Payload(UserInput(req[t])))]
                     /\ reply' = [reply EXCEPT ![t] = ReplyOf(o)]
                     /\ rdata' = [rdata EXCEPT ![t] = o.data]
                ELSE /\ sent' = [sent EXCEPT ![t] =
                          @ \o <<Payload(UserInput(req[t])), Payload(UserInput(req[t]))>>]
                     /\ \E o2 \in Outcomes :
                          /\ reply' = [reply EXCEPT ![t] = ReplyOf(o2)]
                          /\ rdata' = [rdata EXCEPT ![t] = o2.data]
  /\ pc' = [pc EXCEPT ![t] = "lock"]
  /\ sect' = [sect EXCEPT ![t] = "ai"]
  /\ UNCHANGED <<mem, file, tmp, lock, wlog, apiKey, req, resp, nreq>>

\* lines 169-229: the call to the provider, made without the lock; outcomes
\* is what the provider can answer
GenerateFrom(t, outcomes) ==
  /\ pc[t] = "generate"
  /\ IF ~apiKey
       THEN /\ reply' = [reply EXCEPT ![t] = MissingKeyReply]
            /\ UNCHANGED <<sent, rdata>>
       ELSE /\ sent' = [sent EXCEPT ![t] = Append(@, Payload(UserInput(req[t])))]
            /\ \E o \in outcomes :
                 /\ reply' = [reply EXCEPT ![t] = ReplyOf(o)]
                 /\ rdata' = [rdata EXCEPT ![t] = o.data]
  /\ pc' = [pc EXCEPT ![t] = "lock"]
  /\ sect' = [sect EXCEPT ![t] = "ai"]
  /\ UNCHANGED <<mem, file, tmp, lock, wlog, apiKey, req, resp, nreq>>

Generate(t) == GenerateFrom(t, Outcomes)

Next ==
  \E t \in Threads :
    \/ \E r \in Requests : Start(t, r)
    \/ \E r \in Requests : View(t, r)
    \/ \E r \in Requests : NoInput(t, r)
    \/ \E r \in Requests : HistoryPage(t, r)
    \/ Acquire(t)
    \/ Mutate(t)
    \/ WriteOpen(t)
    \/ WriteDump(t)
    \/ WriteReplace(t)
    \/ WriteFail(t)
    \/ Release(t)
    \/ Generate(t)

Spec == Init /\ [][Next]_vars

-----------------------------------------------------------------------------
(* Vocabulary of the properties *)

\* the positions between a handler's mutation and the end of its with block
Writing == {"w_open", "w_dump", "w_replace"}

AfterMutation == Writing \cup {"unlock"}

InSection == {"mutate"} \cup AfterMutation

Mutators == {"import", "clear", "converse"}

Dev(t) == req[t].device

Hist(t) == Get(mem, Dev(t))

\* the turn a converse request appends in its current critical section
TurnOf(t) ==
  IF sect[t] = "user" THEN Turn("You", UserInput(req[t])) ELSE Turn("AI", reply[t])

\* thread t takes the step that mutates the store
MutateStep(t) == pc[t] = "mutate" /\ pc'[t] = "w_open"

Count(h, P(_)) == Cardinality({i \in 1..Len(h) : P(h[i])})

-----------------------------------------------------------------------------
(* C1 - appends keep the turns in order and the history within the cap *)

\* C1: every append of a converse request (the user turn and the AI reply)
\* leaves the history equal to the previous history followed by the new turn,
\* cut from the front to the last Cap turns; so after an append completes the
\* history is never longer than Cap.
C1_AppendKeepsOrderAndCap ==
  [][\A t \in Threads :
       (MutateStep(t) /\ sect[t] \in {"user", "ai"})
         => /\ Get(mem', Dev(t)) = LastN(Append(Hist(t), TurnOf(t)), Cap)
            /\ Len(Get(mem', Dev(t))) <= Cap]_vars

-----------------------------------------------------------------------------
(* C2 - a concurrent burst of converse requests loses no turn *)

\* the history a device has when the process starts
Prior(d) == Get(IF apiKey THEN EmptyMem ELSE SeedMem, d)

\* every thread has finished a converse request for the same device, with
\* prompts that differ, and no other request was ever made
BurstDone ==
  /\ nreq = Cardinality(Threads)
  /\ \A t \in Threads : pc[t] = "done" /\ Branch(req[t]) = "converse"
  /\ \A t, u \in Threads :
        /\ Dev(t) = Dev(u)
        /\ t # u => UserInput(req[t]) # UserInput(req[u])

\* C2: when all requests of a concurrent burst of converse requests for one
\* device have finished, the history is the prior history followed by every
\* request's user turn exactly once and as many AI turns as requests, each
\* request's reply among them; the file, if any, parses, and when the last
\* write succeeded it loads to the in-memory store.
C2_BurstKeepsEveryTurn ==
  BurstDone =>
    \A t \in Threads :
      LET h == Hist(t)
          n == Cardinality(Threads)
          p == Prior(Dev(t))
      IN  /\ Len(h) = Len(p) + 2 * n
          /\ SubSeq(h, 1, Len(p)) = p
          /\ Count(SubSeq(h, Len(p) + 1, Len(h)),
                   LAMBDA x : x = Turn("You", UserInput(req[t]))) = 1
          /\ Count(SubSeq(h, Len(p) + 1, Len(h)), LAMBDA x : x.sender = "AI") = n
          /\ \E i \in (Len(p) + 1)..Len(h) : h[i] = Turn("AI", resp[t].body)
          /\ file.exists => Parses(file.data)
          /\ wlog = "saved" => load_memory(file) = mem

C2_Witness ==
  /\ BurstDone
  /\ wlog = "saved"
  /\ \E t \in Threads : Hist(t)[1].sender = "You" /\ Hist(t)[2].sender = "You"

-----------------------------------------------------------------------------
(* C3 - durability *)

\* C3: whenever the lock is free and the latest write did not fail (in
\* particular when no write has failed), loading the file gives a mapping
\* equal to the in-memory store.
C3_LoadEqualsMemory ==
  (lock = Free /\ wlog # "error") => load_memory(file) = mem

C3_Witness ==
  /\ lock = Free
  /\ wlog = "saved"
  /\ \E t \in Threads : pc[t] = "done" /\ Branch(req[t]) \in Mutators
  /\ \E d \in DOMAIN mem : mem[d] # <<>>
  /\ load_memory(file) = mem

-----------------------------------------------------------------------------
(* C4 - the canonical file is never seen half-written *)

\* C4: at every instant the canonical file is absent or a complete document;
\* whenever it changes it becomes the dump of the whole in-memory store of
\* that moment; and no render of the history page fails to parse it.
C4_NeverHalfWritten ==
  /\ [](file.exists => Parses(file.data))
  /\ [][file' # file => (file'.exists /\ file'.data = Dump(mem))]_vars
  /\ [](\A t \in Threads : resp[t].kind # "error")

\* a reader got a complete, older document while a writer had mutated the
\* store and written part of its temp file
C4_Witness ==
  \E t, u \in Threads :
    /\ pc[t] = "w_dump"
    /\ tmp[t].exists /\ tmp[t].data # <<>> /\ ~Parses(tmp[t].data)
    /\ pc[u] = "done" /\ Branch(req[u]) = "page"
    /\ resp[u].kind = "html" /\ resp[u].body = load_memory(file)
    /\ load_memory(file) # mem

-----------------------------------------------------------------------------
(* C5 - one critical section per mutation and write *)

\* C5: a handler between its mutation and the end of its write holds the
\* lock, so at most one handler is there at a time; the store changes only in
\* the holder's mutation step and the file only in the holder's replace, and
\* nothing changes the store between a mutation and the end of its write.
C5_OneCriticalSection ==
  /\ [](\A t \in Threads : pc[t] \in InSection => lock = t)
  /\ [][(mem' # mem) => \E t \in Threads : lock = t /\ MutateStep(t)]_vars
  /\ [][(file' # file) =>
          \E t \in Threads : lock = t /\ pc[t] = "w_replace" /\ pc'[t] = "unlock"]_vars
  /\ [][(\E t \in Threads : pc[t] \in Writing) => mem' = mem]_vars

\* one handler is inside its write while another waits for the lock
C5_Witness ==
  \E t, u \in Threads :
    /\ t # u
    /\ pc[t] \in Writing /\ lock = t
    /\ pc[u] = "lock"

-----------------------------------------------------------------------------
(* C6 - a failed write *)

\* thread t's write has just failed: it is about to leave its with block
FailedWrite(t) == pc[t] = "unlock" /\ wlog = "error"

\* the store holds what thread t's section put there
MutationApplied(t) ==
  /\ Dev(t) \in DOMAIN mem
  /\ CASE sect[t] = "import" -> Hist(t) = req[t].memory.val
       [] sect[t] = "clear"  -> Hist(t) = <<>>
       [] OTHER              -> Hist(t) # <<>> /\ Hist(t)[Len(Hist(t))] = TurnOf(t)

\* C6: the step in which a write fails changes neither the store nor the
\* canonical file, and the mutation that preceded it is still applied; the
\* handler goes on as after a successful write (to the provider call, or to a
\* response with status 200); and right after any successful write the file
\* loads to the whole in-memory store, turns of failed writes included.
C6_FailedWriteKeepsMemory ==
  /\ [][\A t \in Threads :
          (pc[t] \in Writing /\ pc'[t] = "unlock" /\ wlog' = "error")
            => (mem' = mem /\ file' = file)]_vars
  /\ [](\A t \in Threads : FailedWrite(t) => MutationApplied(t))
  /\ [][\A t \in Threads :
          (FailedWrite(t) /\ pc'[t] # "unlock")
            => \/ sect[t] = "user" /\ pc'[t] = "generate"
               \/ sect[t] # "user" /\ pc'[t] = "done" /\ resp'[t].status = 200]_vars
  /\ [](\A t \in Threads :
          (pc[t] = "unlock" /\ wlog = "saved") => load_memory(file) = mem)

\* a request whose write failed has answered with status 200 and the file is
\* behind the store
C6_Witness ==
  /\ wlog = "error"
  /\ lock = Free
  /\ load_memory(file) # mem
  /\ \E t \in Threads :
        /\ pc[t] = "done" /\ Branch(req[t]) \in Mutators
        /\ resp[t].status = 200
        /\ MutationApplied(t)

-----------------------------------------------------------------------------
(* C7 - replace and clear *)

\* the file lists device d with an empty array
ListsEmpty(d) ==
  /\ file.exists /\ Parses(file.data)
  /\ d \in DOMAIN Parse(file.data)
  /\ Parse(file.data)[d] = <<>>

\* C7 as stated: when an import has completed (its write over, the lock still
\* held, so nothing came in between) the history is the payload verbatim, and
\* when a clear has completed the history is empty and the file lists the
\* device with an empty array.
C7_ReplaceThenGet_AsStated ==
  \A t \in Threads :
    pc[t] = "unlock" =>
      /\ sect[t] = "import" => Hist(t) = req[t].memory.val
      /\ sect[t] = "clear" => (Hist(t) = <<>> /\ ListsEmpty(Dev(t)))

\* C7 amended: the same, the file listing the device with an empty array
\* when the write of the clear succeeded.
C7_ReplaceThenGet ==
  \A t \in Threads :
    pc[t] = "unlock" =>
      /\ sect[t] = "import" => (Dev(t) \in DOMAIN mem /\ Hist(t) = req[t].memory.val)
      /\ sect[t] = "clear" =>
           /\ Dev(t) \in DOMAIN mem /\ Hist(t) = <<>>
           /\ wlog = "saved" => ListsEmpty(Dev(t))

\* an import longer than the cap has completed untruncated, after a clear of
\* the same device that the file recorded
C7_Witness ==
  \E t, u \in Threads :
    /\ pc[t] = "unlock" /\ sect[t] = "import" /\ wlog = "saved"
    /\ Len(Hist(t)) > Cap
    /\ Parse(file.data)[Dev(t)] = req[t].memory.val
    /\ pc[u] = "done" /\ Branch(req[u]) = "clear" /\ Dev(u) = Dev(t)

-----------------------------------------------------------------------------
(* C8 - a malformed import *)

\* every element has a sender and a text
TurnShaped(h) == \A i \in 1..Len(h) : {"sender", "text"} \subseteq DOMAIN h[i]

\* the request carries a "memory" that is no list of turns
MalformedImport(r) ==
  /\ r.route = "api" /\ r.method = "POST" /\ r.memory.present
  /\ ~(r.memory.isList /\ TurnShaped(r.memory.val))

\* C8: a request with a malformed import payload never enters a critical
\* section (so it changes neither the store nor the file) and is answered
\* with a bad-request status.
C8_MalformedImportRejected ==
  \A t \in Threads :
    MalformedImport(req[t]) =>
      /\ pc[t] \in {"idle", "done"}
      /\ pc[t] = "done" => resp[t].status = 400

-----------------------------------------------------------------------------
(* C9 - view *)

ViewRequest(r) ==
  /\ r.route = "api" /\ r.view = "history" /\ ~r.clear
  /\ ~(r.method = "POST" /\ r.memory.present /\ r.memory.isList)

\* thread t takes and answers, in this step, a request satisfying P
Serves(t, P(_)) ==
  /\ nreq' = nreq + 1
  /\ pc[t] \in {"idle", "done"} /\ pc'[t] = "done"
  /\ P(req'[t])
  /\ \A u \in Threads \ {t} : req'[u] = req[u] /\ resp'[u] = resp[u]

\* no thread posts to the provider in this step
ProviderUntouched == \A t \in Threads : sent'[t] = sent[t] \/ sent'[t] = <<>>

\* C9: a view request is answered in one step with the device's history as
\* the store holds it (empty for a device the store has no key for), and the
\* step changes neither the store, its keys included, nor the file, and
\* posts nothing to the provider.
C9_ViewReadsOnly ==
  /\ [](\A t \in Threads : ViewRequest(req[t]) => (pc[t] = "done" /\ sent[t] = <<>>))
  /\ [][\A t \in Threads :
          Serves(t, ViewRequest)
            => /\ resp'[t] = Response(200, "json", Get(mem, req'[t].device))
               /\ mem' = mem /\ DOMAIN mem' = DOMAIN mem
               /\ file' = file
               /\ ProviderUntouched]_vars

\* a view answered with a history another request is still extending
C9_Witness ==
  \E t, u \in Threads :
    /\ pc[t] = "done" /\ ViewRequest(req[t])
    /\ resp[t].body # <<>> /\ resp[t].body = Hist(t)
    /\ pc[u] = "generate" /\ Dev(u) = Dev(t)

-----------------------------------------------------------------------------
(* C10 - an empty prompt *)

\* a converse request (no clear, no view, no import list) whose prompt is
\* empty once stripped
EmptyPrompt(r) ==
  /\ r.route = "api" /\ ~r.clear /\ r.view # "history"
  /\ ~(r.method = "POST" /\ r.memory.present /\ r.memory.isList)
  /\ Strip(r.input) = <<>>

\* C10: a converse request with an empty or whitespace-only prompt is answered
\* at once with "No input" and status 400; it never waits for the lock, never
\* posts to the provider, and the step changes neither the store nor the file.
C10_EmptyPromptRejected ==
  /\ [](\A t \in Threads :
          EmptyPrompt(req[t])
            => /\ pc[t] = "done"
               /\ resp[t] = Response(400, "text", W("No input"))
               /\ sent[t] = <<>>)
  /\ [][\A t \in Threads :
          Serves(t, EmptyPrompt)
            => (mem' = mem /\ file' = file /\ ProviderUntouched)]_vars

\* a whitespace-only prompt was rejected while the store held a history
C10_Witness ==
  \E t \in Threads :
    /\ pc[t] = "done" /\ EmptyPrompt(req[t]) /\ req[t].input = Blank
    /\ resp[t].status = 400
    /\ Hist(t) # <<>>

-----------------------------------------------------------------------------
(* C11 - a converse request alone adds its user turn and its AI turn *)

\* no thread but t has served a request: every request so far was served by
\* t, each to its response before the next was accepted
Alone(t) == \A u \in Threads \ {t} : req[u] = NoRequest

\* thread t has answered a converse request
Conversed(t) == pc[t] = "done" /\ Branch(req[t]) = "converse"

-----------------------------------------------------------------------------
(* C12 - the provider is called at most once, and a call that failed or was
   skipped still leaves one AI turn *)

\* thread t is past the call to the provider
Generated(t) == sect[t] = "ai"

\* thread t has appended its AI turn and written the store
ReplyStored(t) == sect[t] = "ai" /\ pc[t] = "unlock"

IsErrorTurn(x) == x.sender = "AI" /\ x.text \in ErrorReplies

\* C12: a request posts to the provider at most once; it posts nothing when
\* no API key is configured, and nothing when it is a clear, an import, a view
\* or a rejected request. Past the call, a call that was skipped (no key) or
\* that failed (no body was obtained) has left an error text as the reply;
\* that reply is appended as one AI turn at the end of the history and
\* written like any reply (after a successful write the file loads to the
\* store); a first request whose call failed or was skipped leaves exactly
\* one error turn.
C12_OneCallAtMost ==
  \A t \in Threads :
    /\ Len(sent[t]) <= 1
    /\ ~apiKey => sent[t] = <<>>
    /\ Branch(req[t]) # "converse" => sent[t] = <<>>
    /\ Generated(t)
         => /\ (sent[t] = <<>>) = ~apiKey
            /\ sent[t] = <<>> => reply[t] = MissingKeyReply
            /\ rdata[t] = JNull => reply[t] \in ErrorReplies
    /\ ReplyStored(t)
         => /\ Hist(t) # <<>>
            /\ Hist(t)[Len(Hist(t))] = Turn("AI", reply[t])
            /\ wlog = "saved" => load_memory(file) = mem
    /\ (Alone(t) /\ Conversed(t) /\ nreq = 1 /\ reply[t] \in ErrorReplies)
         => Count(Hist(t), IsErrorTurn) = 1

\* a call that failed with an error status was posted once, and its error
\* text is the last turn of the history, in memory and in the file
C12_Witness ==
  \E t \in Threads :
    /\ ReplyStored(t)
    /\ Len(sent[t]) = 1
    /\ reply[t] = ReplyOf([kind |-> "status", data |-> JNull])
    /\ wlog = "saved"
    /\ Get(load_memory(file), Dev(t)) = Hist(t)
    /\ Hist(t)[Len(Hist(t))] = Turn("AI", reply[t])

-----------------------------------------------------------------------------
(* C13 - what is sent to the provider ends with the prompt *)

\* C13: every sequence of turns posted to the provider is non-empty and its
\* final entry has role user and the prompt of the request (as stripped by
\* the handler, and not empty) as its text, whatever history is stored.
C13_SentEndsWithPrompt ==
  \A t \in Threads :
    \A i \in 1..Len(sent[t]) :
      LET contents == sent[t][i]
      IN  /\ contents # <<>>
          /\ contents[Len(contents)] = [role |-> "user", text |-> UserInput(req[t])]
          /\ UserInput(req[t]) # <<>>

\* a padded prompt was posted, stripped, for a device whose history before
\* the request ended with an AI turn
C13_Witness ==
  \E t \in Threads :
    LET h == Hist(t)
        n == Len(h)
    IN  /\ pc[t] = "lock" /\ Generated(t)
        /\ req[t].input = PaddedYo
        /\ sent[t] = <<Payload(W("yo"))>>
        /\ n >= 2
        /\ h[n] = Turn("You", W("yo"))
        /\ h[n - 1].sender = "AI"

-----------------------------------------------------------------------------
(* C14 - what is sent to the provider is the recent window of the history *)

\* the context the claim describes for a history h: its most recent 60
\* turns, oldest first, without the turns whose text is empty, sender You as
\* role user and every other sender as the responder's role
ContextOf(h) ==
  LET w == SelectSeq(LastN(h, 60), LAMBDA x : x.text # <<>>)
  IN  [i \in 1..Len(w) |->
         [role |-> IF w[i].sender = "You" THEN "user" ELSE "model",
          text |-> w[i].text]]

\* thread t takes the step that calls the provider
GenerateStep(t) == pc[t] = "generate" /\ pc'[t] = "lock"

\* C14: the sequence of turns a converse request posts to the provider is
\* the context of the device's history as it stands at the call (the user
\* turn already appended): the most recent 60 turns, oldest first, mapped to
\* roles, empty texts skipped.
C14_SentIsRecentWindow ==
  [][\A t \in Threads :
       (GenerateStep(t) /\ apiKey)
         => sent'[t] = <<ContextOf(Hist(t))>>]_vars

-----------------------------------------------------------------------------
(* One request served from start to response, over every combination of the
   request's parameters and over a family of provider documents: the
   specification for the properties of the dispatch of api() and of the
   normalisation of the provider's response, which are functions of one
   request *)

\* a key that the document does not have
Absent == [t |-> "absent"]

Obj(k, v) == JDict([x \in {k} |-> v])

\* what a provider document holds under "candidates": nothing, a well-formed
\* candidate, a candidate whose only text is whitespace, an entry that is no
\* object
CandidatesChoices ==
  {Absent,
   DictGet(HelloDoc, "candidates", JNull),
   JList(<<Obj("content", Obj("parts", JList(<<Obj("text", JStr(Blank))>>)))>>),
   JList(<<JStr(W("junk"))>>)}

\* under "output": nothing, an object with a text, an object with a
\* whitespace text, a sequence of items, an object whose content is no object
OutputChoices ==
  {Absent,
   Obj("text", JStr(W("x"))),
   Obj("text", JStr(Blank)),
   JList(<<Obj("text", JStr(W("a"))), Obj("content", Obj("text", JStr(W("b"))))>>),
   Obj("content", JStr(W("junk")))}

\* under "responses": nothing, a sequence of texts, a sequence of non-objects
ResponsesChoices ==
  {Absent,
   JList(<<Obj("text", JStr(W("r1"))), Obj("text", JStr(W("r2")))>>),
   JList(<<JStr(W("junk"))>>)}

TextChoices == {Absent, JStr(W("t")), JStr(Blank)}

MessageChoices == {Absent, JStr(W("m"))}

\* the JSON object with the keys that are present
DocOf(c, o, r, x, m) ==
  LET f == [candidates |-> c, output |-> o, responses |-> r, text |-> x, message |-> m]
      keys == {k \in DOMAIN f : f[k] # Absent}
  IN  JDict([k \in keys |-> f[k]])

NormDocs ==
  {DocOf(c, o, r, x, m) : c \in CandidatesChoices, o \in OutputChoices,
                          r \in ResponsesChoices, x \in TextChoices, m \in MessageChoices}

NormOutcomes == Outcomes \cup {[kind |-> "ok", data |-> d] : d \in NormDocs}

\* every combination of method, clear, view, JSON memory and input, and the
\* history page
AllRequests ==
  {Request("api", me, "d1", cl, vw, mm, inp) :
      me \in {"GET", "POST"}, cl \in BOOLEAN, vw \in {"none", "history"},
      mm \in {NoMemory, ListMemory(ShortHistory), OtherMemory}, inp \in {<<>>, Hi}}
  \cup {Request("history", "GET", "d1", FALSE, "none", NoMemory, <<>>)}

NextSingle ==
  \E t \in Threads :
    \/ \E r \in AllRequests : nreq = 0 /\ Start(t, r)
    \/ \E r \in AllRequests : nreq = 0 /\ View(t, r)
    \/ \E r \in AllRequests : nreq = 0 /\ NoInput(t, r)
    \/ \E r \in AllRequests : nreq = 0 /\ HistoryPage(t, r)
    \/ Acquire(t)
    \/ Mutate(t)
    \/ WriteOpen(t)
    \/ WriteDump(t)
    \/ WriteReplace(t)
    \/ WriteFail(t)
    \/ Release(t)
    \/ GenerateFrom(t, NormOutcomes)

SpecSingle == Init /\ [][NextSingle]_vars

-----------------------------------------------------------------------------
(* C15 - the order of the shapes and the sentinel *)

NoShape == [present |-> FALSE, raised |-> FALSE, text |-> <<>>]

Shape(r) == [present |-> TRUE, raised |-> r.raised, text |-> r.text]

\* the five shapes of a document, in the order of the claim: whether the
\* document has the shape, whether traversing it raises, and the text it holds
Shapes(doc) ==
  LET candidates == DictGet(doc, "candidates", JNull)
      output     == DictGet(doc, "output", JNull)
      responses  == DictGet(doc, "responses", JNull)
      text       == DictGet(doc, "text", JNull)
      message    == DictGet(doc, "message", JNull)
  IN  << IF candidates.t = "list" /\ candidates.l # <<>>
           THEN Shape(CandidatesRule(candidates)) ELSE NoShape,
         IF output.t = "list" THEN Shape(OutputListRule(output)) ELSE NoShape,
         IF output.t = "dict" THEN Shape(OutputDictRule(output)) ELSE NoShape,
         IF responses.t = "list" THEN Shape(ResponsesRule(responses)) ELSE NoShape,
         IF text.t = "str" /\ Truthy(text)
           THEN [present |-> TRUE, raised |-> FALSE, text |-> text.s]
         ELSE IF message.t = "str"
           THEN [present |-> TRUE, raised |-> FALSE, text |-> message.s]
         ELSE IF text.t = "str"
           THEN [present |-> TRUE, raised |-> FALSE, text |-> text.s]
         ELSE NoShape >>

Present(doc) == {k \in 1..5 : Shapes(doc)[k].present}

Min(S) == CHOOSE k \in S : \A j \in S : k <= j

IsBlank(text) == Strip(text) = <<>>

\* thread t obtained the document doc from the provider
Normalized(t) == Generated(t) /\ rdata[t] # JNull

\* C15: for a provider document none of whose shapes raises, the reply is
\* the sentinel "No reply" when the document has none of the five shapes or
\* every shape it has holds an empty or whitespace-only text; and when the
\* first shape it has, in the order candidates, output sequence, output
\* object, responses, top-level text or message, holds a text that is not
\* blank, the reply is that text (up to surrounding whitespace).
C15_FirstShapeOrSentinel ==
  \A t \in Threads :
    Normalized(t)
      => LET doc == rdata[t]
             sh  == Shapes(doc)
         IN  (\A k \in Present(doc) : ~sh[k].raised)
               => IF \A k \in Present(doc) : IsBlank(sh[k].text)
                    THEN reply[t] = NoReply
                    ELSE ~IsBlank(sh[Min(Present(doc))].text)
                           => Strip(reply[t]) = Strip(sh[Min(Present(doc))].text)

-----------------------------------------------------------------------------
(* C16 - a rule that raises is skipped *)

\* the shapes of the document whose traversal does not raise
Sound(doc) == {k \in Present(doc) : ~Shapes(doc)[k].raised}

\* the shapes whose traversal raises
Raising(doc) == {k \in Present(doc) : Shapes(doc)[k].raised}

\* C16: when the traversal of a shape of the provider document raises, the
\* handler still answers (no exception escapes), the shape counts as not
\* matching, and the next shape in order is tried: when the first shape that
\* does not raise holds a text that is not blank, the reply is that text, and
\* when no shape is left the reply is the sentinel.
C16_RaisingRuleIsSkipped ==
  \A t \in Threads :
    (Normalized(t) /\ Raising(rdata[t]) # {})
      => LET doc == rdata[t]
             sh  == Shapes(doc)
         IN  IF Sound(doc) = {}
               THEN reply[t] = NoReply
               ELSE ~IsBlank(sh[Min(Sound(doc))].text)
                      => Strip(reply[t]) = Strip(sh[Min(Sound(doc))].text)

-----------------------------------------------------------------------------
(* C19 - the priority of the branches *)

\* the request is a clear request / carries an import payload / is a view
\* request
ClearRequest(r) == r.route = "api" /\ r.clear

ImportRequest(r) == r.route = "api" /\ r.method = "POST" /\ r.memory.present /\ r.memory.isList

\* the branch the claim gives a request of /api
ClaimedBranch(r) ==
  IF ClearRequest(r) THEN "clear"
  ELSE IF ImportRequest(r) THEN "import"
  ELSE IF ViewRequest(r) THEN "view"
  ELSE "prompt"

\* the branch thread t ran for its request, read from what it did
BranchRun(t) ==
  IF sect[t] \in {"clear", "import"} THEN sect[t]
  ELSE IF resp[t].kind = "json" THEN "view"
  ELSE "prompt"

\* C19: every request of /api runs the one branch given by the priority
\* clear, import, view, prompt: once it is answered, a clear request has
\* cleared (also when it carries an import payload or asks for the view), and
\* the history is empty, not the imported one.
C19_ClearFirst ==
  \A t \in Threads :
    (pc[t] = "done" /\ req[t].route = "api")
      => /\ BranchRun(t) = ClaimedBranch(req[t])
         /\ ClearRequest(req[t])
              => resp[t] = Response(200, "text", W("Memory cleared!")) /\ Hist(t) = <<>>

-----------------------------------------------------------------------------
(* C18 - the call to the provider is made without the lock *)

\* thread t is at the call to the provider
Generating(t) == pc[t] = "generate"

\* C18: a converse request is at the call to the provider only after its
\* first critical section: it does not hold the lock there, a write of the
\* store has been attempted, and nothing was posted before; when no other
\* request overlapped, the history then ends with the request's user turn
\* and, if the write succeeded, the file loads to the store. A handler holds
\* the lock only inside a critical section, and the one it enters after the
\* call does nothing to the store but append the AI reply.
C18_GenerateWithoutLock ==
  \A t \in Threads :
    /\ Generating(t)
         => /\ lock # t
            /\ sect[t] = "user"
            /\ wlog \in {"saved", "error"}
            /\ sent[t] = <<>>
    /\ (Generating(t) /\ Alone(t))
         => /\ Hist(t) # <<>>
            /\ Hist(t)[Len(Hist(t))] = Turn("You", UserInput(req[t]))
            /\ wlog = "saved" => load_memory(file) = mem
    /\ sent[t] # <<>> => Generated(t)
    /\ lock = t => pc[t] \in InSection
    /\ (lock = t /\ Generated(t) /\ pc[t] \in AfterMutation)
         => Hist(t) # <<>> /\ Hist(t)[Len(Hist(t))] = Turn("AI", reply[t])

\* while one request is at the call to the provider, a request of another
\* device holds the lock and is about to replace the file
C18_Witness ==
  \E t, u \in Threads :
    /\ Generating(t)
    /\ lock = u /\ pc[u] = "w_replace"
    /\ Dev(u) # Dev(t)

-----------------------------------------------------------------------------
(* C20 - every AI turn follows its prompt *)

\* the sender of an element of a history ("none" when it has no sender)
Sender(x) == IF "sender" \in DOMAIN x THEN x.sender ELSE "none"

\* every AI turn of h comes right after a You turn, unless it is the first
\* turn of a history that has reached the cap (its You turn was evicted)
Alternates(h) ==
  \A i \in 1..Len(h) :
    Sender(h[i]) = "AI"
      => IF i = 1 THEN Len(h) >= Cap ELSE Sender(h[i - 1]) = "You"

\* C20: in every reachable state, requests overlapping or not, every AI turn
\* of every device's history comes right after a You turn (unless that You
\* turn was evicted by the cap).
C20_AlternatesAlways == \A d \in Devices : Alternates(Get(mem, d))

-----------------------------------------------------------------------------
(* C17 - every request is answered *)

\* a step of the handler thread t is running (everything but the arrival of
\* a request)
Step(t) ==
  \/ Acquire(t)
  \/ Mutate(t)
  \/ WriteOpen(t)
  \/ WriteDump(t)
  \/ WriteReplace(t)
  \/ WriteFail(t)
  \/ Release(t)
  \/ Generate(t)

\* the requests of the runs checked for termination: one of every branch, the
\* mutating ones for one device and an import for another
LiveRequests ==
  {Request("api", "GET", "d1", FALSE, "none", NoMemory, Hi),
   Request("api", "GET", "d1", TRUE, "none", NoMemory, <<>>),
   Request("api", "POST", "d1", FALSE, "none", ListMemory(ShortHistory), <<>>),
   Request("api", "GET", "d1", FALSE, "history", NoMemory, <<>>),
   Request("api", "GET", "d1", FALSE, "none", NoMemory, Blank),
   Request("api", "POST", "d2", FALSE, "none", ListMemory(BadHistory), <<>>),
   Request("history", "GET", "d1", FALSE, "none", NoMemory, <<>>)}

NextLive ==
  \E t \in Threads :
    \/ \E r \in LiveRequests : Start(t, r)
    \/ \E r \in LiveRequests : View(t, r)
    \/ \E r \in LiveRequests : NoInput(t, r)
    \/ \E r \in LiveRequests : HistoryPage(t, r)
    \/ Acquire(t)
    \/ Mutate(t)
    \/ WriteOpen(t)
    \/ WriteDump(t)
    \/ WriteReplace(t)
    \/ WriteFail(t)
    \/ Release(t)
    \/ Generate(t)

\* the scheduler lets every thread that can take a step take one; the call to
\* the provider returns (timeout=25, line 190)
FairSpec == Init /\ [][NextLive]_vars /\ \A t \in Threads : WF_vars(Step(t))

Busy(t) == pc[t] \notin {"idle", "done"}

\* C17: under fair scheduling every request that was accepted reaches its
\* response, with the lock not held by its thread, whatever requests it is
\* interleaved with; a lock that is held is released; and no thread waits
\* for the lock while it holds it.
C17_EveryRequestAnswered ==
  /\ \A t \in Threads : Busy(t) ~> (pc[t] = "done" /\ resp[t] # NoResponse /\ lock # t)
  /\ (lock # Free) ~> (lock = Free)
  /\ [](\A t \in Threads : pc[t] = "lock" => lock # t)

\* two overlapping requests of one device, a converse request and a clear,
\* have both been answered and the lock is free
C17_Witness ==
  \E t, u \in Threads :
    /\ Conversed(t)
    /\ pc[u] = "done" /\ Branch(req[u]) = "clear" /\ Dev(u) = Dev(t)
    /\ lock = Free
    /\ resp[t].status = 200 /\ resp[u].status = 200

====
